---- MODULE Spec2Model ----
(***************************************************************************)
(* A model of vector.h: RawMemory<T> (an owner of uninitialized storage)   *)
(* and Vector<T> (a growable array built on it).                           *)
(*                                                                         *)
(* The heap is a map from block ids to sequences of slots.  A slot is Raw  *)
(* (no object lives there) or holds the value of a constructed T.  Every   *)
(* element operation that the element type allows to throw consumes one    *)
(* unit of "fuel"; the operation attempted with no fuel left throws.  An   *)
(* operation's fuel is an input, so every possible failure point of every  *)
(* operation is explored.                                                  *)
(***************************************************************************)
EXTENDS Integers, Sequences, FiniteSets, TLC

\* ------------------------------------------------------------------ bounds
MaxCap == 2        \* capacity limit of the two-vector specification
MaxCapOne == 3     \* capacity limit of the insert/erase specification
MaxSize == 3       \* largest argument of Reserve and Resize
MaxAppend == 5     \* number of appends of the append-only specification

\* ------------------------------------------------------------ slot values
Raw == -1                  \* uninitialized storage: no object in the slot
DefaultValue == 0          \* the value of a default-constructed T
Values == {1, 2}           \* values the caller passes in
Moved == 3                 \* the state a T is left in after being moved from

NullBuf == 0               \* buffer_ == nullptr
Vecs == {"a", "b"}         \* the Vector objects of the program
Blocks == 1..(Cardinality(Vecs) + 1)   \* one block per Vector and one in flight

\* Element types.  copyable: is_copy_constructible_v<T>; nothrowMove:
\* is_nothrow_move_constructible_v<T>; movedFrom: a move changes its source;
\* throws: the operations of T that are not noexcept can throw.
ElemTypes ==
  { [name |-> "Pod",      copyable |-> TRUE,  nothrowMove |-> TRUE,  movedFrom |-> FALSE, throws |-> FALSE],
    [name |-> "String",   copyable |-> TRUE,  nothrowMove |-> TRUE,  movedFrom |-> TRUE,  throws |-> TRUE],
    [name |-> "Throwing", copyable |-> TRUE,  nothrowMove |-> FALSE, movedFrom |-> TRUE,  throws |-> TRUE],
    [name |-> "MoveOnly", copyable |-> FALSE, nothrowMove |-> FALSE, movedFrom |-> TRUE,  throws |-> TRUE] }

VARIABLES
  T,        \* the element type of the instantiation Vector<T>
  vec,      \* vec[x]: the fields of Vector object x (data_.buffer_, data_.capacity_, size_)
  heap,     \* heap[b]: the slots of block b; <<>> when b is not allocated
  last,     \* what the last call was and what its caller observed
  status    \* "running", or "aborted" once the process was terminated

vars == <<T, vec, heap, last, status>>

MinOf(x, y) == IF x <= y THEN x ELSE y
MaxOf(x, y) == IF x >= y THEN x ELSE y

\* --------------------------------------------------------------- RawMemory
Min(S) == CHOOSE x \in S : \A y \in S : x <= y

\* operator new: some block that is not allocated
NewBlock(h) == Min({b \in Blocks : h[b] = <<>>})

\* RawMemory::Allocate(n): n raw slots, or nullptr for n = 0
AllocAddr(h, n) == IF n # 0 THEN NewBlock(h) ELSE NullBuf

Allocate(h, n) ==
  IF n # 0 THEN [h EXCEPT ![NewBlock(h)] = [k \in 1..n |-> Raw]] ELSE h

LiveIn(h, b) == IF b = NullBuf THEN 0 ELSE Cardinality({k \in DOMAIN h[b] : h[b][k] # Raw})

\* The machine state an operation threads through its steps:
\*   h: the heap, f: fuel left, ok: FALSE once an exception is in flight,
\*   leaked: objects whose storage was released or overwritten without
\*   their destructor having run.
Machine(h, f) == [h |-> h, f |-> f, ok |-> TRUE, leaked |-> 0]

\* RawMemory::Deallocate / ~RawMemory: operator delete(buf); noexcept.
\* Objects still alive in the block are never destroyed.
Deallocate(m, b) ==
  IF b = NullBuf THEN m
  ELSE [m EXCEPT !.h[b] = <<>>, !.leaked = @ + LiveIn(m.h, b)]

\* ------------------------------------------------------ element operations
\* A reference to a T: an element of a block, or an object of the caller.
ElemRef(b, i) == [ext |-> FALSE, val |-> 0, blk |-> b, idx |-> i]
ExtRef(v) == [ext |-> TRUE, val |-> v, blk |-> NullBuf, idx |-> 0]
Deref(h, r) == IF r.ext THEN r.val ELSE h[r.blk][r.idx + 1]

CopyThrows == T.throws
MoveThrows == T.throws /\ ~T.nothrowMove
DefaultThrows == T.throws

\* One potentially-throwing step: throws when no fuel is left.
Tick(m, canThrow) ==
  IF ~m.ok THEN m
  ELSE IF canThrow /\ m.f = 0 THEN [m EXCEPT !.ok = FALSE]
  ELSE IF canThrow THEN [m EXCEPT !.f = @ - 1]
  ELSE m

\* placement new of value v at slot i of block b
Put(m, b, i, v) ==
  [m EXCEPT !.h[b][i + 1] = v,
            !.leaked = @ + (IF m.h[b][i + 1] # Raw THEN 1 ELSE 0)]

\* a move leaves its source in the moved-from state
MoveOut(m, r) ==
  IF T.movedFrom /\ ~r.ext THEN [m EXCEPT !.h[r.blk][r.idx + 1] = Moved] ELSE m

\* new (b + i) T(r)
ConstructCopy(m, b, i, r) ==
  LET t == Tick(m, CopyThrows) IN
  IF ~m.ok \/ ~t.ok THEN t ELSE Put(t, b, i, Deref(t.h, r))

\* new (b + i) T(std::move(r))
ConstructMove(m, b, i, r) ==
  LET t == Tick(m, MoveThrows) IN
  IF ~m.ok \/ ~t.ok THEN t ELSE MoveOut(Put(t, b, i, Deref(t.h, r)), r)

\* new (b + i) T(std::forward<Args>(args)...) for one argument
Construct(m, b, i, r, mode) ==
  IF mode = "copy" THEN ConstructCopy(m, b, i, r) ELSE ConstructMove(m, b, i, r)

\* new (b + i) T
ConstructDefault(m, b, i) ==
  LET t == Tick(m, DefaultThrows) IN
  IF ~m.ok \/ ~t.ok THEN t ELSE Put(t, b, i, DefaultValue)

\* b[i] = r
AssignCopy(m, b, i, r) ==
  LET t == Tick(m, CopyThrows) IN
  IF ~m.ok \/ ~t.ok THEN t ELSE [t EXCEPT !.h[b][i + 1] = Deref(t.h, r)]

\* b[i] = std::move(r)
AssignMove(m, b, i, r) ==
  LET t == Tick(m, MoveThrows) IN
  IF ~m.ok \/ ~t.ok THEN t
  ELSE MoveOut([t EXCEPT !.h[b][i + 1] = Deref(t.h, r)], r)

\* std::destroy_at(b + i); noexcept
DestroyAt(m, b, i) == [m EXCEPT !.h[b][i + 1] = Raw]

\* std::destroy_n(b + i, n); runs during unwinding too
DestroyN(m, b, i, n) ==
  IF n = 0 THEN m
  ELSE [m EXCEPT !.h[b] = [k \in DOMAIN @ |-> IF k - 1 >= i /\ k - 1 < i + n THEN Raw ELSE @[k]]]

\* ------------------------------------------------- <memory> / <algorithm>
\* std::uninitialized_copy_n(sb + si, n, db + di): on a throw the elements
\* already constructed in the destination are destroyed and the exception
\* goes on.
RECURSIVE UninitCopyFrom(_, _, _, _, _, _, _)
UninitCopyFrom(m, sb, si, n, db, di, k) ==
  IF ~m.ok \/ k = n THEN m
  ELSE LET m1 == ConstructCopy(m, db, di + k, ElemRef(sb, si + k)) IN
       IF m1.ok THEN UninitCopyFrom(m1, sb, si, n, db, di, k + 1)
       ELSE DestroyN(m1, db, di, k)

UninitializedCopyN(m, sb, si, n, db, di) == UninitCopyFrom(m, sb, si, n, db, di, 0)

\* std::uninitialized_move_n: as above; the sources already moved from stay
\* moved from.
RECURSIVE UninitMoveFrom(_, _, _, _, _, _, _)
UninitMoveFrom(m, sb, si, n, db, di, k) ==
  IF ~m.ok \/ k = n THEN m
  ELSE LET m1 == ConstructMove(m, db, di + k, ElemRef(sb, si + k)) IN
       IF m1.ok THEN UninitMoveFrom(m1, sb, si, n, db, di, k + 1)
       ELSE DestroyN(m1, db, di, k)

UninitializedMoveN(m, sb, si, n, db, di) == UninitMoveFrom(m, sb, si, n, db, di, 0)

\* std::uninitialized_default_construct_n / uninitialized_value_construct_n
RECURSIVE UninitDefaultFrom(_, _, _, _, _)
UninitDefaultFrom(m, b, i, n, k) ==
  IF ~m.ok \/ k = n THEN m
  ELSE LET m1 == ConstructDefault(m, b, i + k) IN
       IF m1.ok THEN UninitDefaultFrom(m1, b, i, n, k + 1)
       ELSE DestroyN(m1, b, i, k)

UninitializedDefaultConstructN(m, b, i, n) == UninitDefaultFrom(m, b, i, n, 0)

\* std::copy_n(sb, n, db): copy-assigns front to back; a throw leaves the
\* elements assigned so far assigned.
RECURSIVE CopyFrom(_, _, _, _, _)
CopyFrom(m, sb, n, db, k) ==
  IF ~m.ok \/ k = n THEN m
  ELSE CopyFrom(AssignCopy(m, db, k, ElemRef(sb, k)), sb, n, db, k + 1)

CopyN(m, sb, n, db) == CopyFrom(m, sb, n, db, 0)

\* std::move(b + first, b + lst, b + d): move-assigns front to back
RECURSIVE MoveRange(_, _, _, _, _)
MoveRange(m, b, first, lst, d) ==
  IF ~m.ok \/ first >= lst THEN m
  ELSE MoveRange(AssignMove(m, b, d, ElemRef(b, first)), b, first + 1, lst, d + 1)

\* a faulty move_backward: the shift leaves out the element at the insertion point
MoveBackwardShort(m, b, first, lst, dLast) ==
  MoveRange(m, b, first + 1, lst, first + 2)

\* std::move_backward(b + first, b + lst, b + dLast): move-assigns back to front
RECURSIVE MoveBackward(_, _, _, _, _)
MoveBackward(m, b, first, lst, dLast) ==
  IF ~m.ok \/ first >= lst THEN m
  ELSE MoveBackward(AssignMove(m, b, dLast - 1, ElemRef(b, lst - 1)), b, first, lst - 1, dLast - 1)

\* ------------------------------------------------------------------ Vector
\* Vector::MoveDataIfPossibleOrCopyInstead
MoveDataIfPossibleOrCopyInstead(m, sb, si, n, db, di) ==
  IF T.nothrowMove \/ ~T.copyable
  THEN UninitializedMoveN(m, sb, si, n, db, di)
  ELSE UninitializedCopyN(m, sb, si, n, db, di)

\* Vector(): data_ holds nullptr and capacity 0, size_ = 0
EmptyVector == [alive |-> TRUE, buffer |-> NullBuf, capacity |-> 0, size |-> 0]
\* a Vector object that is not constructed (before its declaration, after its scope)
NoVector == [alive |-> FALSE, buffer |-> NullBuf, capacity |-> 0, size |-> 0]

\* the elements begin()..end() of a Vector with fields v
ElemsOf(v, h) == [k \in 1..v.size |-> h[v.buffer][k]]

\* a position: a pointer into a block
Pos(b, i) == [blk |-> b, idx |-> i]
NoPos == Pos(NullBuf, 0)

\* What a call leaves behind: the heap, the fields of *this, and what the
\* caller can observe (ret: the iterator returned; threw: an exception left
\* the call; failed: an element operation threw during the call; frees: how
\* often the block allocated by the call was released without having become
\* the Vector's; leaked: objects never destroyed; realloc: the call allocated).
Outcome(m, v, ret, threw, frees, realloc) ==
  [h |-> m.h, f |-> m.f, v |-> v, ret |-> ret, failed |-> ~m.ok, threw |-> threw,
   frees |-> frees, leaked |-> m.leaked, realloc |-> realloc, ub |-> FALSE]

\* the machine state a call that returned normally hands to the next statement
After(r) == [h |-> r.h, f |-> r.f, ok |-> TRUE, leaked |-> r.leaked]

\* a faulty Reserve: the request is rounded up to the doubling step
ReserveOnDoubling(m, v, new_capacity) ==
  IF new_capacity <= v.capacity THEN Outcome(m, v, NoPos, FALSE, 0, FALSE)
  ELSE LET grown == MaxOf(new_capacity, MaxOf(1, 2 * v.capacity))
           nb == AllocAddr(m.h, grown)
           m1 == [m EXCEPT !.h = Allocate(m.h, grown)]
           m2 == MoveDataIfPossibleOrCopyInstead(m1, v.buffer, 0, v.size, nb, 0)
       IN IF m2.ok
          THEN Outcome(Deallocate(DestroyN(m2, v.buffer, 0, v.size), v.buffer),
                       [v EXCEPT !.buffer = nb, !.capacity = grown], NoPos, FALSE, 0, TRUE)
          ELSE Outcome(Deallocate(m2, nb), v, NoPos, TRUE, 1, TRUE)

\* Vector::Reserve(new_capacity)
ReserveOn(m, v, new_capacity) ==
  IF new_capacity <= v.capacity THEN Outcome(m, v, NoPos, FALSE, 0, FALSE)
  ELSE LET nb == AllocAddr(m.h, new_capacity)
           m1 == [m EXCEPT !.h = Allocate(m.h, new_capacity)]
           m2 == MoveDataIfPossibleOrCopyInstead(m1, v.buffer, 0, v.size, nb, 0)
       IN IF m2.ok
          THEN LET m3 == DestroyN(m2, v.buffer, 0, v.size)
                   \* data_.Swap(new_data); ~new_data releases the old block
                   m4 == Deallocate(m3, v.buffer)
               IN Outcome(m4, [v EXCEPT !.buffer = nb, !.capacity = new_capacity],
                          NoPos, FALSE, 0, TRUE)
          ELSE \* unwinding: ~new_data releases the new block
               Outcome(Deallocate(m2, nb), v, NoPos, TRUE, 1, TRUE)

\* Vector::Resize(new_size)
ResizeOn(m, v, new_size) ==
  LET r == ReserveOn(m, v, new_size)
      m1 == After(r)
  IN IF r.threw THEN r
     ELSE IF new_size < r.v.size
     THEN Outcome(DestroyN(m1, r.v.buffer, new_size, r.v.size - new_size),
                  [r.v EXCEPT !.size = new_size], NoPos, FALSE, r.frees, r.realloc)
     ELSE IF new_size > r.v.size
     THEN LET m2 == UninitializedDefaultConstructN(m1, r.v.buffer, r.v.size, new_size - r.v.size)
          IN IF m2.ok
             THEN Outcome(m2, [r.v EXCEPT !.size = new_size], NoPos, FALSE, r.frees, r.realloc)
             ELSE Outcome(m2, r.v, NoPos, TRUE, r.frees, r.realloc)
     ELSE Outcome(m1, r.v, NoPos, FALSE, r.frees, r.realloc)

\* Vector::PopBack(); the caller meets assert(size_ > 0)
PopBackOn(m, v) ==
  Outcome(DestroyAt(m, v.buffer, v.size - 1), [v EXCEPT !.size = @ - 1], NoPos, FALSE, 0, FALSE)

\* a faulty growth step: one slot more instead of twice the size
TempSizePlusOne(size) == size + 1

\* the doubling of EmplaceBack and InsertWithRealloc
TempSize(size) == IF size = 0 THEN 1 ELSE size * 2

\* Vector::EmplaceBack(args) with one argument r, forwarded as mode says
EmplaceBackOn(m, v, r, mode) ==
  IF v.size = v.capacity
  THEN LET temp_size == TempSize(v.size)
           nb == AllocAddr(m.h, temp_size)
           m1 == [m EXCEPT !.h = Allocate(m.h, temp_size)]
           m2 == Construct(m1, nb, v.size, r, mode)
           m3 == MoveDataIfPossibleOrCopyInstead(m2, v.buffer, 0, v.size, nb, 0)
       IN IF m3.ok
          THEN LET m4 == DestroyN(m3, v.buffer, 0, v.size)
                   m5 == Deallocate(m4, v.buffer)
               IN Outcome(m5, [v EXCEPT !.buffer = nb, !.capacity = temp_size, !.size = @ + 1],
                          Pos(nb, v.size), FALSE, 0, TRUE)
          ELSE \* no handler: unwinding runs ~new_data only
               Outcome(Deallocate(m3, nb), v, NoPos, TRUE, 1, TRUE)
  ELSE LET m1 == Construct(m, v.buffer, v.size, r, mode)
       IN IF m1.ok
          THEN Outcome(m1, [v EXCEPT !.size = @ + 1], Pos(v.buffer, v.size), FALSE, 0, FALSE)
          ELSE Outcome(m1, v, NoPos, TRUE, 0, FALSE)

\* Vector::InsertWithRealloc(pos, args), pos = begin() + dist
InsertWithRealloc(m, v, dist, r, mode) ==
  LET temp_size == TempSize(v.size)
      nb == AllocAddr(m.h, temp_size)
      m1 == [m EXCEPT !.h = Allocate(m.h, temp_size)]
      m2 == Construct(m1, nb, dist, r, mode)
      m3 == MoveDataIfPossibleOrCopyInstead(m2, v.buffer, 0, dist, nb, 0)
      m4 == MoveDataIfPossibleOrCopyInstead(m3, v.buffer, dist, v.size - dist, nb, dist + 1)
  IN IF m4.ok
     THEN LET m5 == DestroyN(m4, v.buffer, 0, v.size)
              m6 == Deallocate(m5, v.buffer)
          IN Outcome(m6, [v EXCEPT !.buffer = nb, !.capacity = temp_size, !.size = @ + 1],
                     Pos(nb, dist), FALSE, 0, TRUE)
     ELSE \* catch (...): std::destroy_at(&new_data) releases the block, the
          \* exception is swallowed, and ~new_data then releases the same
          \* block again at the end of the scope
          [Outcome(Deallocate(m4, nb), v, Pos(v.buffer, dist), FALSE, 2, TRUE) EXCEPT !.ub = TRUE]

\* Vector::InsertWithoutRealloc(pos, args), pos = begin() + dist
InsertWithoutRealloc(m, v, dist, r, mode) ==
  LET b == v.buffer
      it == Pos(b, dist)
  IN IF b = NullBuf \/ dist = v.size
     THEN LET m1 == Construct(m, b, v.size, r, mode)
          IN IF m1.ok
             THEN Outcome(m1, [v EXCEPT !.size = @ + 1], it, FALSE, 0, FALSE)
             ELSE Outcome(m1, v, NoPos, TRUE, 0, FALSE)
     ELSE LET \* new (end()) T(std::forward<T>(*(end() - 1)))
              m1 == ConstructMove(m, b, v.size, ElemRef(b, v.size - 1))
              \* std::move_backward(it, end() - 1, end())
              m2 == MoveBackward(m1, b, dist, v.size - 1, v.size)
              \* T(std::forward<Args>(args)...): the temporary
              m3 == Tick(m2, IF mode = "copy" THEN CopyThrows ELSE MoveThrows)
              tmp == IF m3.ok THEN Deref(m3.h, r) ELSE Raw
              m4 == IF m3.ok /\ mode = "move" THEN MoveOut(m3, r) ELSE m3
              \* *it = temporary (move assignment), then ~T() of the temporary
              m5 == AssignMove(m4, b, dist, ExtRef(tmp))
          IN IF m5.ok
             THEN Outcome(m5, [v EXCEPT !.size = @ + 1], it, FALSE, 0, FALSE)
             ELSE Outcome(m5, v, NoPos, TRUE, 0, FALSE)

\* Vector::Emplace(p, args) and Vector::Insert(pos, value)
EmplaceOn(m, v, dist, r, mode) ==
  IF v.size = v.capacity
  THEN InsertWithRealloc(m, v, dist, r, mode)
  ELSE InsertWithoutRealloc(m, v, dist, r, mode)

\* a faulty Erase: the shift starts one element late
EraseOnLate(m, v, dist) ==
  IF v.size = 0 THEN Outcome(m, v, Pos(v.buffer, dist), FALSE, 0, FALSE)
  ELSE LET m1 == MoveRange(m, v.buffer, dist + 2, v.size, dist + 1)
       IN IF m1.ok
          THEN LET r == PopBackOn(m1, v) IN [r EXCEPT !.ret = Pos(v.buffer, dist)]
          ELSE Outcome(m1, v, NoPos, TRUE, 0, FALSE)

\* Vector::Erase(p), p = begin() + dist
EraseOn(m, v, dist) ==
  IF v.size = 0 THEN Outcome(m, v, Pos(v.buffer, dist), FALSE, 0, FALSE)
  ELSE LET m1 == MoveRange(m, v.buffer, dist + 1, v.size, dist)
       IN IF m1.ok
          THEN LET r == PopBackOn(m1, v) IN [r EXCEPT !.ret = Pos(v.buffer, dist)]
          ELSE Outcome(m1, v, NoPos, TRUE, 0, FALSE)

\* a faulty copy constructor: it takes the source's block instead of allocating its own
CopyCtorShallow(m, other) ==
  Outcome(m, [other EXCEPT !.alive = TRUE], NoPos, FALSE, 0, other.size # 0)

\* Vector(const Vector& other)
CopyCtorOn(m, other) ==
  LET nb == AllocAddr(m.h, other.size)
      m1 == [m EXCEPT !.h = Allocate(m.h, other.size)]
      m2 == UninitializedCopyN(m1, other.buffer, 0, other.size, nb, 0)
  IN IF m2.ok
     THEN Outcome(m2, [alive |-> TRUE, buffer |-> nb, capacity |-> other.size, size |-> other.size],
                  NoPos, FALSE, 0, other.size # 0)
     ELSE Outcome(Deallocate(m2, nb), NoVector, NoPos, TRUE, 1, TRUE)

\* ~Vector(): destroy_n(data_, size_), then ~RawMemory
DtorOn(m, v) == Deallocate(DestroyN(m, v.buffer, 0, v.size), v.buffer)

\* Vector::operator=(const Vector& other)
CopyAssignOn(m, v, other) ==
  IF other.size > v.capacity
  THEN LET t == CopyCtorOn(m, other)          \* Vector temp(other)
       IN IF t.threw THEN [t EXCEPT !.v = v]
          ELSE \* Swap(temp); ~temp destroys what *this held
               Outcome(DtorOn(After(t), v), [t.v EXCEPT !.size = other.size],
                       NoPos, FALSE, 0, TRUE)
  ELSE LET m1 == CopyN(m, other.buffer, MinOf(v.size, other.size), v.buffer)
           m2 == IF ~m1.ok THEN m1
                 ELSE IF v.size > other.size
                 THEN DestroyN(m1, v.buffer, other.size, v.size - other.size)
                 ELSE IF v.size < other.size
                 THEN UninitializedCopyN(m1, other.buffer, v.size, other.size - v.size,
                                         v.buffer, v.size)
                 ELSE m1
       IN IF m2.ok
          THEN Outcome(m2, [v EXCEPT !.size = other.size], NoPos, FALSE, 0, FALSE)
          ELSE Outcome(m2, v, NoPos, TRUE, 0, FALSE)

\* ------------------------------------------------------------------- calls
\* The record of a call: which operation it was, the index of its position
\* argument (idx), the value its argument referred to when the call began
\* (val; alias: the argument was an element of the Vector itself), and what
\* its caller saw of it.
NoCall ==
  [op |-> "none", idx |-> 0, val |-> 0, alias |-> FALSE, failed |-> FALSE, threw |-> FALSE,
   ret |-> NoPos, frees |-> 0, leaked |-> 0, realloc |-> FALSE]

Call(op, r) ==
  [NoCall EXCEPT !.op = op, !.failed = r.failed, !.threw = r.threw, !.ret = r.ret,
                 !.frees = r.frees, !.leaked = r.leaked, !.realloc = r.realloc]

\* The fuel a caller can give a call that performs at most n throwing
\* element operations.  A call is taken with the fuel it uses up exactly
\* (it succeeds) or with less (it fails at the operation that finds none),
\* so each failure point and the success are each taken once.
Fuels(n) == IF T.throws THEN 0..n ELSE {0}
Exact(r) == r.failed \/ r.f = 0

\* the arguments a caller can pass for a T: an object of its own (copied or
\* moved from), or an element of the Vector itself (copied: Insert(pos, v[j]))
ArgRefs(x, mode) ==
  {ExtRef(v) : v \in Values}
    \cup (IF mode = "copy" THEN {ElemRef(vec[x].buffer, j) : j \in 0..(vec[x].size - 1)} ELSE {})
Modes == {mo \in {"copy", "move"} : mo = "move" \/ T.copyable}

\* Undefined behaviour (a block released twice): the allocator terminates
\* the process, or the program goes on.
Ends(r) == IF r.ub THEN {"aborted", "running"} ELSE {"running"}

\* the state after a call on Vector x with outcome r
Finish(x, r, call) ==
  /\ Exact(r)
  /\ vec' = [vec EXCEPT ![x] = r.v]
  /\ heap' = r.h
  /\ last' = call
  /\ \E s \in Ends(r) : status' = s
  /\ UNCHANGED T

Usable(x) == status = "running" /\ vec[x].alive

DefaultConstruct(x) ==
  /\ status = "running" /\ ~vec[x].alive
  /\ Finish(x, Outcome(Machine(heap, 0), EmptyVector, NoPos, FALSE, 0, FALSE),
            [NoCall EXCEPT !.op = "Vector"])

CopyConstruct(x, y, f) ==
  /\ status = "running" /\ ~vec[x].alive /\ vec[y].alive /\ T.copyable
  /\ LET r == CopyCtorOn(Machine(heap, f), vec[y])
     IN Finish(x, r, Call("CopyCtor", r))

Destruct(x) ==
  /\ Usable(x)
  /\ LET m == DtorOn(Machine(heap, 0), vec[x])
         r == Outcome(m, NoVector, NoPos, FALSE, 0, FALSE)
     IN Finish(x, r, Call("Dtor", r))

CopyAssign(x, y, f) ==
  /\ Usable(x) /\ vec[y].alive /\ T.copyable
  /\ LET r == CopyAssignOn(Machine(heap, f), vec[x], vec[y])
     IN Finish(x, r, Call(IF x = y THEN "CopyAssignSelf" ELSE "CopyAssign", r))

\* a faulty Swap: the fields are copied one way and not exchanged
SwapFieldsOneWay(w, x, y) == [w EXCEPT ![x] = w[y]]

\* Vector::Swap(other): data_.Swap(other.data_); std::swap(size_, other.size_)
SwapFields(w, x, y) == [w EXCEPT ![x] = w[y], ![y] = w[x]]

Swap(x, y) ==
  /\ Usable(x) /\ vec[y].alive
  /\ vec' = SwapFields(vec, x, y)
  /\ last' = [NoCall EXCEPT !.op = "Swap"]
  /\ UNCHANGED <<T, heap, status>>

\* Vector::operator=(Vector&& rhs)
MoveAssign(x, y) ==
  /\ Usable(x) /\ vec[y].alive
  /\ vec' = SwapFields(vec, x, y)
  /\ last' = [NoCall EXCEPT !.op = IF x = y THEN "MoveAssignSelf" ELSE "MoveAssign"]
  /\ UNCHANGED <<T, heap, status>>

\* Vector(Vector&& other): a default-constructed *this, then Swap(other)
MoveConstruct(x, y) ==
  /\ status = "running" /\ ~vec[x].alive /\ vec[y].alive
  /\ vec' = SwapFields([vec EXCEPT ![x] = EmptyVector], x, y)
  /\ last' = [NoCall EXCEPT !.op = "MoveCtor"]
  /\ UNCHANGED <<T, heap, status>>

Reserve(x, n, f) ==
  /\ Usable(x)
  /\ LET r == ReserveOn(Machine(heap, f), vec[x], n)
     IN Finish(x, r, Call("Reserve", r))

Resize(x, n, f) ==
  /\ Usable(x)
  /\ LET r == ResizeOn(Machine(heap, f), vec[x], n)
     IN Finish(x, r, Call("Resize", r))

\* Vector::PushBack(value): EmplaceBack(std::forward<U>(value))
PushBack(x, v, mode, f, lim) ==
  /\ Usable(x)
  /\ vec[x].size < vec[x].capacity \/ TempSize(vec[x].size) <= lim
  /\ LET r == EmplaceBackOn(Machine(heap, f), vec[x], ExtRef(v), mode)
     IN Finish(x, r, [Call("PushBack", r) EXCEPT !.val = v])

PopBack(x) ==
  /\ Usable(x) /\ vec[x].size > 0
  /\ LET r == PopBackOn(Machine(heap, 0), vec[x])
     IN Finish(x, r, Call("PopBack", r))

\* Vector::Insert(pos, value) with pos = begin() + i
Insert(x, i, ref, mode, f, lim) ==
  /\ Usable(x)
  /\ i <= vec[x].size
  /\ vec[x].size < vec[x].capacity \/ TempSize(vec[x].size) <= lim
  /\ LET r == EmplaceOn(Machine(heap, f), vec[x], i, ref, mode)
     IN Finish(x, r, [Call("Insert", r) EXCEPT !.idx = i, !.val = Deref(heap, ref),
                                                   !.alias = ~ref.ext])

\* Vector::Erase(pos) with pos = begin() + i; pos refers to an element, or
\* the Vector is empty
Erase(x, i, f) ==
  /\ Usable(x)
  /\ i < vec[x].size \/ (i = 0 /\ vec[x].size = 0)
  /\ LET r == EraseOn(Machine(heap, f), vec[x], i)
     IN Finish(x, r, [Call("Erase", r) EXCEPT !.idx = i])

\* ---------------------------------------------------------- specifications
TypeInit ==
  /\ T \in ElemTypes
  /\ heap = [b \in Blocks |-> <<>>]
  /\ last = NoCall
  /\ status = "running"

\* two Vectors, both default-constructed
Init == TypeInit /\ vec = [x \in Vecs |-> EmptyVector]

\* Copies and moves from Vector b into Vector a (and of a into itself), with
\* the operations that fill either Vector.
Next ==
  \/ DefaultConstruct("a")
  \/ \E f \in Fuels(MaxCap) : CopyConstruct("a", "b", f)
  \/ MoveConstruct("a", "b")
  \/ Destruct("a")
  \/ \E y \in Vecs, f \in Fuels(MaxCap) : CopyAssign("a", y, f)
  \/ \E y \in Vecs : MoveAssign("a", y)
  \/ Swap("a", "b")
  \/ \E x \in Vecs, n \in 0..MaxCap, f \in Fuels(MaxCap) : Reserve(x, n, f)
  \/ \E x \in Vecs, v \in Values, mo \in Modes, f \in Fuels(MaxCap + 1) : PushBack(x, v, mo, f, MaxCap)
  \/ \E x \in Vecs : PopBack(x)

Spec == Init /\ [][Next]_vars

\* one Vector, default-constructed; the other is never declared
InitOne == TypeInit /\ vec = [x \in Vecs |-> IF x = "a" THEN EmptyVector ELSE NoVector]

\* positional insertion and removal
NextOne ==
  \/ \E n \in 0..MaxCapOne, f \in Fuels(MaxCapOne) : Reserve("a", n, f)
  \/ \E v \in Values, mo \in Modes, f \in Fuels(MaxCapOne + 1) : PushBack("a", v, mo, f, MaxCapOne)
  \/ PopBack("a")
  \/ \E i \in 0..MaxCapOne, mo \in Modes, f \in Fuels(MaxCapOne + 1) :
       \E ref \in ArgRefs("a", mo) : Insert("a", i, ref, mo, f, MaxCapOne)
  \/ \E i \in 0..MaxCapOne, f \in Fuels(MaxCapOne) : Erase("a", i, f)

SpecOne == InitOne /\ [][NextOne]_vars

\* Reserve and Resize
NextResize ==
  \/ \E n \in 0..MaxSize, f \in Fuels(MaxSize) : Reserve("a", n, f)
  \/ \E n \in 0..MaxSize, f \in Fuels(MaxSize) : Resize("a", n, f)
  \/ \E v \in Values, mo \in Modes, f \in Fuels(MaxSize + 1) : PushBack("a", v, mo, f, MaxSize)
  \/ PopBack("a")

SpecResize == InitOne /\ [][NextResize]_vars

\* appends only, starting from the default-constructed Vector
NextAppend ==
  \E v \in Values, mo \in Modes, f \in Fuels(MaxAppend) :
     /\ vec["a"].size < MaxAppend
     /\ ~EmplaceBackOn(Machine(heap, f), vec["a"], ExtRef(v), mo).failed
     /\ PushBack("a", v, mo, f, 2 * MaxAppend)

SpecAppend == InitOne /\ [][NextAppend]_vars

\* ------------------------------------------------------------------ claims
InsertAt(s, i, v) == SubSeq(s, 1, i) \o <<v>> \o SubSeq(s, i + 1, Len(s))
RemoveAt(s, i) == SubSeq(s, 1, i) \o SubSeq(s, i + 2, Len(s))
Seqn(f) == [k \in 1..Cardinality(DOMAIN f) |-> f[k]]

RECURSIVE PowCeilFrom(_, _)
PowCeilFrom(n, p) == IF p >= n THEN p ELSE PowCeilFrom(n, 2 * p)
\* 0 for n = 0, otherwise the smallest power of two >= n
PowCeil(n) == IF n = 0 THEN 0 ELSE PowCeilFrom(n, 1)

Allocated(h) == {b \in Blocks : h[b] # <<>>}
Before(x) == Seqn(ElemsOf(vec[x], heap))
Now(x) == Seqn(ElemsOf(vec'[x], heap'))
\* no object lives in the slots [size, capacity) of v
TailRaw(v, h) == \A k \in (v.size + 1)..v.capacity : h[v.buffer][k] = Raw
\* objects live in all the slots [0, size) of v
HeadLive(v, h) == \A k \in 1..v.size : h[v.buffer][k] # Raw

\* C1: appends alone, from the default-constructed Vector: each append adds
\* its value at the end (so after N appends the size is N and the elements
\* are the appended values in order), the capacity is 0 for size 0 and
\* otherwise the smallest power of two >= size, and the capacity changes
\* only on an append made at size = capacity, to max(1, 2 * capacity).
C1_AppendGrowth ==
  [][ /\ last'.op = "PushBack" /\ ~last'.failed
      /\ Now("a") = Append(Before("a"), last'.val)
      /\ vec["a"].capacity = PowCeil(vec["a"].size)
      /\ vec'["a"].capacity = PowCeil(vec'["a"].size)
      /\ vec'["a"].capacity # vec["a"].capacity =>
           /\ vec["a"].size = vec["a"].capacity
           /\ vec'["a"].capacity = MaxOf(1, 2 * vec["a"].capacity) ]_vars

C1_Witness ==
  /\ last.op = "PushBack"
  /\ vec["a"].size = MaxAppend
  /\ vec["a"].capacity = PowCeil(MaxAppend)
  /\ vec["a"].capacity > MaxAppend

\* C2 as stated: after a move construction or a move assignment of b into
\* a, whatever a held, b is empty and owns nothing, a holds what b held, and
\* no element was touched.
C2_SourceAlwaysEmpty ==
  [][ last'.op \in {"MoveCtor", "MoveAssign"} =>
        /\ vec'["b"] = EmptyVector
        /\ vec'["a"] = vec["b"]
        /\ heap' = heap ]_vars

\* C2 amended: a move construction leaves the source empty and owning
\* nothing; a move assignment exchanges the two Vectors, so the source holds
\* what the destination held (and is empty only when the destination owned
\* nothing); either way the destination holds what the source held and no
\* element was touched.
C2_MoveExchanges ==
  [][ /\ last'.op = "MoveCtor" =>
           /\ vec'["b"] = EmptyVector
           /\ vec'["a"] = vec["b"]
           /\ heap' = heap
      /\ last'.op = "MoveAssign" =>
           /\ vec'["b"] = vec["a"]
           /\ vec'["a"] = vec["b"]
           /\ heap' = heap ]_vars

C2_Witness ==
  /\ last.op = "MoveAssign"
  /\ vec["a"].size > 0
  /\ vec["b"].size > 0
  /\ Seqn(ElemsOf(vec["a"], heap)) # Seqn(ElemsOf(vec["b"], heap))

\* C3: an element operation that fails during a reallocating Reserve or a
\* PushBack at size = capacity leaves the Vector with the size, capacity,
\* block and element values it had, the new block is released, and every
\* element constructed in the new block was destroyed.
C3_StrongGuarantee ==
  [][ last'.op \in {"Reserve", "PushBack"} /\ last'.realloc /\ last'.failed =>
        /\ vec' = vec
        /\ Now("a") = Before("a")
        /\ Allocated(heap') = Allocated(heap)
        /\ last'.frees = 1
        /\ last'.leaked = 0 ]_vars

\* C4: when an Insert at size = capacity fails, every element constructed in
\* the new block is destroyed, the block is released exactly once, and the
\* Vector keeps its block, size and elements.
C4_TeardownOnce ==
  [][ last'.op = "Insert" /\ last'.realloc /\ last'.failed =>
        /\ last'.frees = 1
        /\ last'.leaked = 0
        /\ vec' = vec
        /\ Now("a") = Before("a") ]_vars

\* C5: a successful Insert of a value v (an object of the caller) at index i
\* in [0, size] yields s[0..i) ++ [v] ++ s[i..size), one element more, and
\* returns the position of index i in the storage the Vector then has; it
\* reallocates exactly when size = capacity, to capacity max(1, 2 * size),
\* and otherwise keeps its block and capacity.
C5_InsertPlaces ==
  [][ last'.op = "Insert" /\ ~last'.failed /\ ~last'.alias =>
        /\ Now("a") = InsertAt(Before("a"), last'.idx, last'.val)
        /\ vec'["a"].size = vec["a"].size + 1
        /\ last'.ret = Pos(vec'["a"].buffer, last'.idx)
        /\ last'.realloc <=> vec["a"].size = vec["a"].capacity
        /\ last'.realloc =>
             /\ vec'["a"].capacity = MaxOf(1, 2 * vec["a"].size)
             /\ vec'["a"].buffer # vec["a"].buffer
        /\ ~last'.realloc =>
             /\ vec'["a"].capacity = vec["a"].capacity
             /\ vec'["a"].buffer = vec["a"].buffer ]_vars

C5_Witness ==
  /\ last.op = "Insert" /\ ~last.failed /\ ~last.alias /\ ~last.realloc
  /\ last.idx = 0
  /\ vec["a"].size = 3
  /\ heap[vec["a"].buffer][2] \in Values
  /\ heap[vec["a"].buffer][3] \in Values
  /\ heap[vec["a"].buffer][2] # heap[vec["a"].buffer][3]

\* C6: a successful copy construction or copy assignment of b into a leaves
\* a with b's elements, b unchanged, and the two owning different blocks; a
\* copy assignment replaces a's block exactly when b.size > a.capacity, and
\* otherwise keeps a's block and capacity and leaves no object beyond the
\* new size; afterwards an operation on one Vector alone leaves the other's
\* elements as they were.
C6_CopyIndependent ==
  [][ /\ last'.op \in {"CopyCtor", "CopyAssign"} /\ ~last'.failed =>
           /\ Now("a") = Before("b")
           /\ Now("b") = Before("b")
           /\ vec'["b"] = vec["b"]
           /\ vec'["a"].buffer = NullBuf \/ vec'["a"].buffer # vec'["b"].buffer
           /\ HeadLive(vec'["a"], heap') /\ TailRaw(vec'["a"], heap')
      /\ last'.op = "CopyAssign" /\ ~last'.failed =>
           /\ last'.realloc <=> vec["b"].size > vec["a"].capacity
           /\ last'.realloc =>
                /\ vec'["a"].buffer # vec["a"].buffer
                /\ vec["a"].buffer # NullBuf => heap'[vec["a"].buffer] = <<>>
           /\ ~last'.realloc =>
                /\ vec'["a"].buffer = vec["a"].buffer
                /\ vec'["a"].capacity = vec["a"].capacity
      /\ last'.op \in {"PushBack", "PopBack", "Reserve"} =>
           \/ ElemsOf(vec'["a"], heap') = ElemsOf(vec["a"], heap)
           \/ ElemsOf(vec'["b"], heap') = ElemsOf(vec["b"], heap) ]_vars

C6_Witness ==
  /\ last.op = "CopyAssign" /\ ~last.failed /\ ~last.realloc
  /\ vec["a"].size = 1 /\ vec["a"].capacity = 2
  /\ vec["b"].size = 1
  /\ heap[vec["a"].buffer][1] = heap[vec["b"].buffer][1]
  /\ heap[vec["a"].buffer][2] = Raw

\* C7: Erase on an empty Vector changes nothing and returns its argument; on
\* a non-empty Vector, at index i in [0, size), it removes exactly element i,
\* keeps the others in order, keeps the capacity and the block, and returns
\* the position of index i.
C7_EraseRemoves ==
  [][ last'.op = "Erase" /\ ~last'.failed =>
        /\ last'.ret = Pos(vec["a"].buffer, last'.idx)
        /\ vec'["a"].capacity = vec["a"].capacity
        /\ vec'["a"].buffer = vec["a"].buffer
        /\ IF vec["a"].size = 0
           THEN vec' = vec /\ heap' = heap
           ELSE /\ Now("a") = RemoveAt(Before("a"), last'.idx)
                /\ vec'["a"].size = vec["a"].size - 1
                /\ heap'[vec["a"].buffer][vec["a"].size] = Raw ]_vars

C7_Witness ==
  /\ last.op = "Erase" /\ ~last.failed /\ last.idx = 0
  /\ vec["a"].size = 2
  /\ heap[vec["a"].buffer][1] \in Values
  /\ heap[vec["a"].buffer][2] \in Values
  /\ heap[vec["a"].buffer][1] # heap[vec["a"].buffer][2]

\* the elements Resize(n) leaves: the first n of s, or s and default values
Resized(s, n) == [k \in 1..n |-> IF k <= Len(s) THEN s[k] ELSE DefaultValue]

\* what every successful Resize does, whatever the capacity it reserves
ResizeKeeps ==
  /\ Now("a") = Resized(Before("a"), vec'["a"].size)
  /\ TailRaw(vec'["a"], heap')
  /\ vec'["a"].size <= vec["a"].capacity =>
       /\ vec'["a"].capacity = vec["a"].capacity
       /\ vec'["a"].buffer = vec["a"].buffer
       /\ ~last'.realloc
  /\ vec'["a"].size > vec["a"].capacity => last'.realloc

C9_Layout ==
  \A x \in Vecs :
    vec[x].alive =>
      /\ 0 <= vec[x].size /\ vec[x].size <= vec[x].capacity
      /\ HeadLive(vec[x], heap)
      /\ TailRaw(vec[x], heap)

\* C10: a successful Insert whose argument refers to an element of the
\* Vector itself inserts, at index i, the value that element held when the
\* call began.
C10_AliasedArgument ==
  [][ last'.op = "Insert" /\ last'.alias /\ ~last'.failed =>
        heap'[vec'["a"].buffer][last'.idx + 1] = last'.val ]_vars

====
